---------------------------- MODULE Spec2Model ----------------------------
(***************************************************************************)
(* Model of the RAG pipeline lambdas:                                      *)
(*   src/AWS/lambdas/2_chunk_embed/lambda_function.py   (ChunkAndEmbed)    *)
(*   src/cloud_rag/lambdas/3_query_rag/lambda_function.py (QueryRag)       *)
(*   src/AWS/lambdas/4_gemini_llm/lambda_function.py    (GeminiLambda)     *)
(*                                                                         *)
(* Strings that the code inspects character by character (the text given   *)
(* to chunk_text) are sequences of one-character strings.  Strings that    *)
(* the code only passes along (question, ids, answers) are TLA+ strings.   *)
(***************************************************************************)
EXTENDS Integers, Sequences, FiniteSets, TLC

VARIABLES
    \* ---- chunk_text applied to drawn inputs ----
    c_text, c_max_chars, c_pc, c_chunks,
    \* ---- _build_filter applied to drawn inputs ----
    f_user_id, f_paper_ids, f_pc, f_result,
    \* ---- call_gemini applied to drawn provider behaviour ----
    g_secret, g_http, g_pc, g_result,
    \* ---- QueryRagLambda.lambda_handler ----
    q_event,      \* the request
    q_arn,        \* GEMINI_LAMBDA_ARN
    q_pc,         \* start | embedding | querying | generating | done | failed | idle
    q_last_resp,  \* what the external call that last returned answered
    q_embedding,  \* q_embedding
    q_hits,       \* hits
    q_chunks,     \* top_k_chunks
    q_top_k,      \* topK passed to query_vectors
    q_filter,     \* the filter passed to query_vectors (NoFilter: omitted)
    q_calls,      \* external calls started and returned, in order
    q_result,     \* what the handler returned or raised
    \* ---- ChunkAndEmbedLambda.lambda_handler ----
    i_event,      \* the request
    i_env,        \* VECTOR_BUCKET, VECTOR_INDEX
    i_pc,         \* start | reading | embedding | writing | done | failed | idle
    i_text,       \* text
    i_chunks,     \* chunks
    i_embeddings, \* embeddings
    i_puts,       \* the vectors argument of every put_vectors call made
    i_result      \* what the handler returned or raised

cvars == << c_text, c_max_chars, c_pc, c_chunks >>
fvars == << f_user_id, f_paper_ids, f_pc, f_result >>
gvars == << g_secret, g_http, g_pc, g_result >>
qvars == << q_event, q_arn, q_pc, q_last_resp, q_embedding, q_hits, q_chunks, q_top_k, q_filter,
           q_calls, q_result >>
ivars == << i_event, i_env, i_pc, i_text, i_chunks, i_embeddings, i_puts, i_result >>
vars == << cvars, fvars, gvars, qvars, ivars >>

\* ------------------------------------------------------------------------
\* Bounds
\* ------------------------------------------------------------------------
MaxTextLen == 7
MaxMaxChars == 3
MaxPaperIds == 2
MaxHits == 2
\* ChunkAndEmbedLambda explores texts of at most IndexMaxTextLen characters;
\* IndexMaxChars stands for its chunk budget (max_chars=1000), scaled down
\* to those texts so that a text yields several chunks.
IndexMaxTextLen == 5
IndexMaxChars == 2

\* ------------------------------------------------------------------------
\* Characters and strings
\* ------------------------------------------------------------------------
Whitespace == {" ", "\t"}
Letters == {"a", "b"}
Chars == Letters \cup Whitespace

RECURSIVE SeqsUpTo(_, _)
SeqsUpTo(S, n) ==
    IF n = 0 THEN {<< >>}
    ELSE LET shorter == SeqsUpTo(S, n - 1)
         IN  shorter \cup {Append(s, x) : s \in {t \in shorter : Len(t) = n - 1}, x \in S}

\* " ".join(words)
RECURSIVE Join(_)
Join(words) ==
    IF words = << >> THEN << >>
    ELSE IF Len(words) = 1 THEN words[1]
    ELSE words[1] \o << " " >> \o Join(Tail(words))

\* text.split(): any run of whitespace separates, no word is empty.
\* cur is the word being read, acc the words completed so far.
RECURSIVE SplitLoop(_, _, _)
SplitLoop(text, cur, acc) ==
    IF text = << >>
    THEN IF cur = << >> THEN acc ELSE Append(acc, cur)
    ELSE IF Head(text) \in Whitespace
         THEN SplitLoop(Tail(text), << >>, IF cur = << >> THEN acc ELSE Append(acc, cur))
         ELSE SplitLoop(Tail(text), Append(cur, Head(text)), acc)

Split(text) == SplitLoop(text, << >>, << >>)

\* ------------------------------------------------------------------------
\* Python / JSON values.  A value is a record tagged by t:
\*   null | str (s) | num (n) | bool (b) | list (l) | obj (one field per key)
\* ------------------------------------------------------------------------
PyNone == [t |-> "null"]
PyStr(x) == [t |-> "str", s |-> x]
PyNum(x) == [t |-> "num", n |-> x]
PyBool(x) == [t |-> "bool", b |-> x]
PyList(x) == [t |-> "list", l |-> x]
IsNone(v) == v.t = "null"

Keys(v) == {k \in DOMAIN v \ {"t"} : v[k].t # "absent"}

\* bool(v): None, "", 0, False, [] and {} are falsy
Truthy(v) ==
    CASE v.t = "null" -> FALSE
      [] v.t = "str"  -> v.s # ""
      [] v.t = "num"  -> v.n # 0
      [] v.t = "bool" -> v.b
      [] v.t = "list" -> v.l # << >>
      [] v.t = "obj"  -> Keys(v) # {}

\* a or b
PyOr(a, b) == IF Truthy(a) THEN a ELSE b

EmptyObj == [t |-> "obj"]

\* a key the dict does not hold (for dicts written with a fixed set of fields)
Absent == [t |-> "absent"]
Has(v, key) == key \in DOMAIN v /\ v[key].t # "absent"

\* v.get(key, default) on a dict v
Get(v, key, default) == IF Has(v, key) THEN v[key] ELSE default

\* v[0] is defined on a non-empty list or string; on a dict it is a
\* KeyError (no key 0 in a JSON object), on a number or bool a TypeError.
CanIndex0(v) == (v.t = "list" /\ v.l # << >>) \/ (v.t = "str" /\ v.s # "")

\* the first character of a string is again a string; which one does not
\* matter to any caller here, a string has no .get
Index0(v) == IF v.t = "list" THEN v.l[1] ELSE PyStr("?")

\* the outcome of a call: a returned value or a raised exception
Return(v) == [kind |-> "return", value |-> v]
Raise(e) == [kind |-> "raise", exc |-> e]

\* ------------------------------------------------------------------------
\* chunk_text (2_chunk_embed)
\* ------------------------------------------------------------------------
\* What the loop does with current_words when it closes a chunk.
RestartMutant(word) == << >>

Restart(word) == << word >>

ExtraLenMutant(current_len, word) == Len(word)

ExtraLen(current_len, word) == IF current_len = 0 THEN Len(word) ELSE Len(word) + 1

\* One pass of "for word in words"; st carries chunks, current_words,
\* current_len.
ChunkLoopBody(st, word, max_chars) ==
    LET extra_len == ExtraLen(st.current_len, word)
    IN  IF st.current_len + extra_len > max_chars /\ st.current_words # << >>
        THEN [chunks        |-> Append(st.chunks, Join(st.current_words)),
              current_words |-> Restart(word),
              current_len   |-> Len(word)]
        ELSE IF st.current_len = 0
             THEN [chunks        |-> st.chunks,
                   current_words |-> Append(st.current_words, word),
                   current_len   |-> Len(word)]
             ELSE [chunks        |-> st.chunks,
                   current_words |-> Append(st.current_words, word),
                   current_len   |-> st.current_len + Len(word) + 1]

RECURSIVE ChunkLoop(_, _, _)
ChunkLoop(st, words, max_chars) ==
    IF words = << >> THEN st
    ELSE ChunkLoop(ChunkLoopBody(st, Head(words), max_chars), Tail(words), max_chars)

chunk_text(text, max_chars) ==
    LET words == Split(text)
        st    == ChunkLoop([chunks |-> << >>, current_words |-> << >>, current_len |-> 0],
                           words, max_chars)
    IN  IF st.current_words # << >>
        THEN Append(st.chunks, Join(st.current_words))
        ELSE st.chunks

\* ---- specification: chunk_text applied to every bounded input ----
ChunkVarsInit ==
    /\ c_text \in SeqsUpTo(Chars, MaxTextLen)
    /\ c_max_chars \in 1..MaxMaxChars
    /\ c_pc = "start"
    /\ c_chunks = << >>

ChunkCall ==
    /\ c_pc = "start"
    /\ c_chunks' = chunk_text(c_text, c_max_chars)
    /\ c_pc' = "done"
    /\ UNCHANGED << c_text, c_max_chars >>
    /\ UNCHANGED << fvars, gvars, qvars, ivars >>

ChunkVarsIdle ==
    /\ c_text = << >>
    /\ c_max_chars = 1
    /\ c_pc = "idle"
    /\ c_chunks = << >>

\* C4: the chunks joined by single spaces are the words of the text joined
\* by single spaces (nothing dropped, duplicated, split or reordered), and
\* no chunk is empty.
ChunkRoundTrip ==
    c_pc = "done" =>
        /\ Join(c_chunks) = Join(Split(c_text))
        /\ \A i \in 1..Len(c_chunks) : c_chunks[i] # << >>

\* a text of several words that is cut into several chunks
ChunkRoundTripWitness ==
    /\ c_pc = "done"
    /\ Len(Split(c_text)) >= 3
    /\ Len(c_chunks) >= 2
    /\ \E i \in 1..Len(c_chunks) : \E j \in 1..Len(c_chunks[i]) : c_chunks[i][j] = " "

\* C5: a chunk longer than max_chars is a single word of the text (it holds
\* no separator); so when every word fits, every chunk fits.
ChunkBudget ==
    c_pc = "done" =>
        /\ \A i \in 1..Len(c_chunks) :
              Len(c_chunks[i]) > c_max_chars =>
                  /\ \A j \in 1..Len(c_chunks[i]) : c_chunks[i][j] \notin Whitespace
                  /\ \E k \in 1..Len(Split(c_text)) : Split(c_text)[k] = c_chunks[i]
        /\ (\A k \in 1..Len(Split(c_text)) : Len(Split(c_text)[k]) <= c_max_chars)
              => \A i \in 1..Len(c_chunks) : Len(c_chunks[i]) <= c_max_chars

\* an over-long word emitted as its own chunk among chunks that fit
ChunkBudgetWitness ==
    /\ c_pc = "done"
    /\ Len(c_chunks) >= 3
    /\ \E i \in 1..Len(c_chunks) : Len(c_chunks[i]) > c_max_chars
    /\ \E i \in 1..Len(c_chunks) : Len(c_chunks[i]) = c_max_chars

\* ------------------------------------------------------------------------
\* _build_filter (3_query_rag)
\* ------------------------------------------------------------------------
NoFilter == [op |-> "none"]
EqFilter(field, value) == [op |-> "eq", field |-> field, value |-> value]
InFilter(field, values) == [op |-> "in", field |-> field, values |-> values]
AndFilter(a, b) == [op |-> "and", left |-> a, right |-> b]

build_filterMutant(user_id, paper_ids) ==
    IF IsNone(user_id) /\ IsNone(paper_ids) THEN NoFilter
    ELSE IF ~IsNone(user_id) /\ IsNone(paper_ids) THEN EqFilter("user_id", user_id)
    ELSE IF ~IsNone(user_id) /\ ~IsNone(paper_ids)
         THEN AndFilter(EqFilter("user_id", user_id), InFilter("paper_id", paper_ids))
    ELSE InFilter("paper_id", paper_ids)

build_filter(user_id, paper_ids) ==
    IF ~Truthy(user_id) /\ ~Truthy(paper_ids) THEN NoFilter
    ELSE IF Truthy(user_id) /\ ~Truthy(paper_ids) THEN EqFilter("user_id", user_id)
    ELSE IF Truthy(user_id) /\ Truthy(paper_ids)
         THEN AndFilter(EqFilter("user_id", user_id), InFilter("paper_id", paper_ids))
    ELSE InFilter("paper_id", paper_ids)

\* event.get("user_id"), event.get("paper_ids"): not supplied (None),
\* supplied empty, supplied non-empty
UserIds == {PyNone, PyStr(""), PyStr("u1"), PyStr("u2")}
PaperIdLists == {PyNone} \cup {PyList(l) : l \in SeqsUpTo({"d1", "d2", "d3"}, MaxPaperIds)}

FilterVarsInit ==
    /\ f_user_id \in UserIds
    /\ f_paper_ids \in PaperIdLists
    /\ f_pc = "start"
    /\ f_result = NoFilter

FilterVarsIdle ==
    /\ f_user_id = PyNone
    /\ f_paper_ids = PyNone
    /\ f_pc = "idle"
    /\ f_result = NoFilter

FilterCall ==
    /\ f_pc = "start"
    /\ f_result' = build_filter(f_user_id, f_paper_ids)
    /\ f_pc' = "done"
    /\ UNCHANGED << f_user_id, f_paper_ids >>
    /\ UNCHANGED << cvars, gvars, qvars, ivars >>

\* C2 as stated: "absent" is "not supplied", and no filter is returned only
\* when both inputs are not supplied; a supplied document list, empty or
\* not, yields a membership predicate on it.
FilterTableNotSupplied ==
    f_pc = "done" =>
        /\ (f_result = NoFilter) <=> (IsNone(f_user_id) /\ IsNone(f_paper_ids))
        /\ ~IsNone(f_paper_ids) =>
              \/ f_result = InFilter("paper_id", f_paper_ids)
              \/ f_result = AndFilter(EqFilter("user_id", f_user_id),
                                      InFilter("paper_id", f_paper_ids))

\* C2 amended: the four-way case table with "absent" meaning not supplied
\* or empty; an empty document list is dropped like a missing one.
AbsentOrEmpty(v) == IsNone(v) \/ (v.t = "str" /\ v.s = "") \/ (v.t = "list" /\ v.l = << >>)

FilterTableEmptyIsAbsent ==
    f_pc = "done" =>
        /\ (AbsentOrEmpty(f_user_id) /\ AbsentOrEmpty(f_paper_ids)) => f_result = NoFilter
        /\ (~AbsentOrEmpty(f_user_id) /\ AbsentOrEmpty(f_paper_ids))
              => f_result = EqFilter("user_id", f_user_id)
        /\ (~AbsentOrEmpty(f_user_id) /\ ~AbsentOrEmpty(f_paper_ids))
              => f_result = AndFilter(EqFilter("user_id", f_user_id),
                                      InFilter("paper_id", f_paper_ids))
        /\ (AbsentOrEmpty(f_user_id) /\ ~AbsentOrEmpty(f_paper_ids))
              => f_result = InFilter("paper_id", f_paper_ids)

\* an owner with a supplied but empty document list: owner equality only
FilterTableWitness ==
    /\ f_pc = "done"
    /\ f_user_id = PyStr("u1")
    /\ f_paper_ids = PyList(<< >>)
    /\ f_result = EqFilter("user_id", PyStr("u1"))

\* ------------------------------------------------------------------------
\* GeminiLambda (4_gemini_llm)
\* ------------------------------------------------------------------------
\* What Secrets Manager answers: the call fails, or SecretString is
\*   ""            empty
\*   plain         the bare key, not JSON
\*   json_key      {"GEMINI_API_KEY": "<key>"}
\*   json_nokey    a JSON object without GEMINI_API_KEY
\*   json_emptykey {"GEMINI_API_KEY": ""}
\*   json_nondict  JSON that is not an object (a number, a list)
SecretOutcomes ==
    {"unreachable", "empty", "plain", "json_key", "json_nokey", "json_emptykey", "json_nondict"}

get_gemini_api_key(secret) ==
    CASE secret = "unreachable"   -> Raise("ClientError")
      [] secret = "empty"         -> Raise("RuntimeError")
      [] secret = "plain"         -> Return(PyStr("secret_str"))
      [] secret = "json_key"      -> Return(PyStr("key"))
      [] secret = "json_nokey"    -> Return(PyStr("secret_str"))
      [] secret = "json_emptykey" -> Return(PyStr("secret_str"))
      [] secret = "json_nondict"  -> Raise("AttributeError")

\* build_prompt: the question and one block per chunk, or the placeholder
build_prompt(question, chunks) ==
    [question |-> question,
     context  |-> IF chunks # << >>
                  THEN [i \in 1..Len(chunks) |->
                           << "CHUNK", Get(chunks[i], "rank", PyNone),
                              Get(chunks[i], "text", PyStr("")) >>]
                  ELSE << "(no context provided)" >>]

\* Bodies of an HTTP 200 answer of the provider, as the JSON value the text
\* denotes; Invalid is a body that is not JSON.
Invalid == [t |-> "invalid"]
TextVals == {PyNone, PyStr(""), PyStr("the answer"), PyNum(5)}
PartVals == {PyNone, PyStr("x"), EmptyObj} \cup {[t |-> "obj", text |-> v] : v \in TextVals}
OtherPart == [t |-> "obj", text |-> PyStr("second part")]
PartsVals ==
    {PyNone, EmptyObj, PyList(<< >>)}
        \cup {PyList(<< p >>) : p \in PartVals}
        \cup {PyList(<< p, OtherPart >>) : p \in PartVals}
ContentVals == {PyNone, PyStr("x"), EmptyObj} \cup {[t |-> "obj", parts |-> ps] : ps \in PartsVals}
CandidateVals == {PyNone, PyStr("x"), EmptyObj} \cup {[t |-> "obj", content |-> c] : c \in ContentVals}
OtherCandidate == [t |-> "obj", content |-> [t |-> "obj", parts |-> PyList(<< OtherPart >>)]]
CandidatesVals ==
    {PyNone, EmptyObj, PyList(<< >>), PyStr("x")}
        \cup {PyList(<< c >>) : c \in CandidateVals}
        \cup {PyList(<< c, OtherCandidate >>) : c \in CandidateVals}
Bodies ==
    {Invalid, PyNone, PyList(<< >>), PyNum(5), EmptyObj}
        \cup {[t |-> "obj", candidates |-> cs] : cs \in CandidatesVals}

\* urlopen: an HTTP error status, no connection, or a 200 with a body
HttpOutcomes ==
    {[status |-> "HTTPError"], [status |-> "URLError"]}
        \cup {[status |-> "ok", body |-> b] : b \in Bodies}

ParseFallback == Return(PyStr("Failed to parse model response."))

\* the text of parts[0]
PartText(part) == Get(part, "text", PyStr("Model returned no text."))

\* the try block of call_gemini; every exception in it is caught
ParseResponse(resp_json) ==
    IF resp_json.t # "obj" THEN ParseFallback
    ELSE LET candidates == Get(resp_json, "candidates", PyList(<< >>))
         IN  IF ~Truthy(candidates) THEN Return(PyStr("Model returned no candidates."))
             ELSE IF ~CanIndex0(candidates) THEN ParseFallback
             ELSE LET first == Index0(candidates)
                  IN  IF first.t # "obj" THEN ParseFallback
                      ELSE LET content == Get(first, "content", EmptyObj)
                           IN  IF content.t # "obj" THEN ParseFallback
                               ELSE LET parts == Get(content, "parts", PyList(<< >>))
                                    IN  IF ~Truthy(parts)
                                        THEN Return(PyStr("Model returned no content parts."))
                                        ELSE IF ~CanIndex0(parts) THEN ParseFallback
                                        ELSE IF Index0(parts).t # "obj" THEN ParseFallback
                                        ELSE Return(PartText(Index0(parts)))

\* json.loads(resp_body), outside the try block
LoadBody(body) == IF body = Invalid THEN Raise("JSONDecodeError") ELSE Return(body)

call_gemini(prompt, secret, http) ==
    LET api_key == get_gemini_api_key(secret)
    IN  IF api_key.kind = "raise" THEN api_key
        ELSE IF http.status # "ok" THEN Raise(http.status)
        ELSE IF LoadBody(http.body).kind = "raise" THEN LoadBody(http.body)
        ELSE ParseResponse(LoadBody(http.body).value)

GeminiVarsInit ==
    /\ g_secret \in SecretOutcomes
    /\ g_http \in HttpOutcomes
    /\ g_pc = "start"
    /\ g_result = Return(PyNone)

GeminiVarsIdle ==
    /\ g_secret = "plain"
    /\ g_http = [status |-> "URLError"]
    /\ g_pc = "idle"
    /\ g_result = Return(PyNone)

GeminiCall ==
    /\ g_pc = "start"
    /\ g_result' = call_gemini(build_prompt("q", << >>), g_secret, g_http)
    /\ g_pc' = "done"
    /\ UNCHANGED << g_secret, g_http >>
    /\ UNCHANGED << cvars, fvars, qvars, ivars >>

\* the HTTP call was made and answered with a 200
HttpSucceeded ==
    /\ get_gemini_api_key(g_secret).kind = "return"
    /\ g_http.status = "ok"

\* C3: whenever the HTTP call succeeds, call_gemini returns a string (never
\* null) and never raises, whatever the shape of the body.
GeminiAlwaysString ==
    (g_pc = "done" /\ HttpSucceeded) =>
        /\ g_result.kind = "return"
        /\ g_result.value.t = "str"

\* lambda_handler of GeminiLambda
gemini_lambda_handler(event, secret, http) ==
    IF ~Has(event, "question") THEN Raise("KeyError")
    ELSE LET chunks == PyOr(PyOr(Get(event, "chunks", PyNone),
                                 Get(event, "top_k_chunks", PyNone)),
                            PyList(<< >>))
             answer == call_gemini(build_prompt(event.question, chunks.l), secret, http)
         IN  IF answer.kind = "raise" THEN answer
             ELSE Return([t |-> "obj", answer |-> answer.value,
                          used_chunks |-> PyNum(Len(chunks.l))])

\* ------------------------------------------------------------------------
\* QueryRagLambda (3_query_rag)
\* ------------------------------------------------------------------------
\* Distances and similarities are counted in tenths: One stands for 1.0.
One == 10
DEFAULT_TOP_K == 2

Vec == PyList(<< 1, 2 >>)

\* The embedding out of the Bedrock payload: the first truthy of the three
\* aliases, else the last one; None raises.
ExtractEmbeddingMutant(payload) ==
    LET embedding == PyOr(PyOr(Get(payload, "embedding", PyNone),
                               Get(payload, "embeddings", PyNone)),
                          Get(payload, "vector", PyNone))
    IN  IF IsNone(embedding) THEN Return(PyList(<< >>)) ELSE Return(embedding)

ExtractEmbedding(payload) ==
    LET embedding == PyOr(PyOr(Get(payload, "embedding", PyNone),
                               Get(payload, "embeddings", PyNone)),
                          Get(payload, "vector", PyNone))
    IN  IF IsNone(embedding) THEN Raise("RuntimeError") ELSE Return(embedding)

\* embed_text, given what bedrock.invoke_model answered
embed_text(resp) ==
    IF resp.kind = "raise" THEN resp ELSE ExtractEmbedding(resp.value)

\* similarity = 1.0 - float(dist)
SimilarityMutant(dist) == IF dist.n > One THEN PyNum(0) ELSE PyNum(One - dist.n)

Similarity(dist) == PyNum(One - dist.n)

\* rank of the hit at 1-based position i of hits
Rank(i, hits) == PyNum(i)

\* the body of "for rank, v in enumerate(hits, start=1)"
ToChunk(i, hits) ==
    LET v    == hits[i]
        md   == PyOr(Get(v, "metadata", EmptyObj), EmptyObj)
        dist == Get(v, "distance", PyNum(0))
    IN  [t |-> "obj",
         rank |-> Rank(i, hits),
         similarity |-> Similarity(dist),
         text |-> Get(md, "source_text", PyStr("")),
         user_id |-> Get(md, "user_id", PyNone),
         paper_id |-> Get(md, "paper_id", PyNone),
         chunk_index |-> Get(md, "chunk_index", PyNone)]

TopKChunks(hits) == [i \in 1..Len(hits) |-> ToChunk(i, hits)]

\* "if not GEMINI_LAMBDA_ARN or not invoke_gemini"
SkipGenerationMutant(arn, invoke_gemini) == ~Truthy(arn) /\ ~invoke_gemini

SkipGeneration(arn, invoke_gemini) == ~Truthy(arn) \/ ~invoke_gemini

\* the GeminiLambda invocations made for one request: one, with all chunks
GeminiInvocationsMutant(top_k_chunks) ==
    [i \in 1..Len(top_k_chunks) |-> "generate_call"]

GeminiInvocations(top_k_chunks) == << "generate_call" >>

\* What lambda_client.invoke(InvocationType="RequestResponse") hands back
\* for a run of the invoked function: its return value as the payload, or,
\* when the function raised, an error document as the payload (with
\* FunctionError set in the response, which the caller does not read).
\* invoke itself raises only when the Lambda service refuses the call.
InvokePayload(run) ==
    IF run.kind = "raise"
    THEN [t |-> "obj", errorMessage |-> PyStr(run.exc), errorType |-> PyStr(run.exc)]
    ELSE run.value

\* ---- inputs ----
QueryEvents ==
    {[t |-> "obj", question |-> q, user_id |-> u, paper_ids |-> p, top_k |-> k,
      invoke_gemini |-> g] :
        q \in {Absent, PyStr("what?")},
        u \in {Absent, PyStr("u1")},
        p \in {Absent, PyList(<< >>), PyList(<< "d1" >>)},
        k \in {Absent, PyNum(1)},
        g \in {Absent, PyBool(TRUE), PyBool(FALSE)}}

ArnValues == {PyNone, PyStr(""), PyStr("arn:gemini")}

\* what bedrock.invoke_model answers
EmbedResponses ==
    {Raise("ClientError")}
        \cup {Return([t |-> "obj", embedding |-> a, embeddings |-> b, vector |-> c]) :
                 a \in {Absent, PyNone, Vec}, b \in {Absent, Vec},
                 c \in {Absent, PyList(<< >>), Vec}}

FullMetadata ==
    [t |-> "obj", source_text |-> PyStr("foo"), user_id |-> PyStr("u1"),
     paper_id |-> PyStr("d1"), chunk_index |-> PyNum(0)]
PartialMetadata ==
    [t |-> "obj", source_text |-> Absent, user_id |-> PyStr("u2"),
     paper_id |-> Absent, chunk_index |-> PyNum(3)]
HitValues ==
    {[t |-> "obj", distance |-> d, metadata |-> m] :
        d \in {Absent, PyNum(2), PyNum(12)},
        m \in {PyNone, FullMetadata, PartialMetadata}}

\* what s3v.query_vectors answers
QueryResponses ==
    {Raise("ClientError"), Return([t |-> "obj", vectors |-> Absent])}
        \cup {Return([t |-> "obj", vectors |-> PyList(h)]) : h \in SeqsUpTo(HitValues, MaxHits)}

\* how the invoked GeminiLambda fares: the secret it reads, the provider's answer
GeminiRuns ==
    {[secret |-> "unreachable", http |-> [status |-> "URLError"]]}
        \cup {[secret |-> "plain", http |-> h] :
                 h \in {[status |-> "HTTPError"], [status |-> "URLError"],
                        [status |-> "ok", body |-> Invalid],
                        [status |-> "ok", body |-> EmptyObj],
                        [status |-> "ok", body |->
                            [t |-> "obj", candidates |-> PyList(<< OtherCandidate >>)]]}}

\* what lambda_client.invoke answers
InvokeResponses ==
    {[kind |-> "raise", exc |-> "ClientError"]}
        \cup {[kind |-> "ran", run |-> r] : r \in GeminiRuns}

QueryVarsInit ==
    /\ q_event \in QueryEvents
    /\ q_arn \in ArnValues
    /\ q_pc = "start"
    /\ q_last_resp = [of |-> "none"]
    /\ q_embedding = PyNone
    /\ q_hits = << >>
    /\ q_chunks = << >>
    /\ q_top_k = PyNone
    /\ q_filter = NoFilter
    /\ q_calls = << >>
    /\ q_result = Return(PyNone)

QueryVarsIdle ==
    /\ q_event = EmptyObj
    /\ q_arn = PyNone
    /\ q_pc = "idle"
    /\ q_last_resp = [of |-> "none"]
    /\ q_embedding = PyNone
    /\ q_hits = << >>
    /\ q_chunks = << >>
    /\ q_top_k = PyNone
    /\ q_filter = NoFilter
    /\ q_calls = << >>
    /\ q_result = Return(PyNone)

\* lines 121-130 up to the call bedrock.invoke_model
QueryStart ==
    /\ q_pc = "start"
    /\ IF ~Has(q_event, "question")
       THEN /\ q_pc' = "failed"
            /\ q_result' = Raise("KeyError")
            /\ UNCHANGED q_calls
       ELSE /\ q_pc' = "embedding"
            /\ q_calls' = Append(q_calls, "embed_call")
            /\ UNCHANGED q_result
    /\ UNCHANGED << q_event, q_arn, q_last_resp, q_embedding, q_hits, q_chunks, q_top_k,
                    q_filter >>
    /\ UNCHANGED << cvars, fvars, gvars, ivars >>

\* bedrock.invoke_model returns or raises; the rest of embed_text, then
\* _build_filter, up to the call s3v.query_vectors
EmbedReturn ==
    /\ q_pc = "embedding"
    /\ \E resp \in EmbedResponses :
         /\ q_last_resp' = [of |-> "embed", resp |-> resp]
         /\ IF embed_text(resp).kind = "raise"
            THEN /\ q_pc' = "failed"
                 /\ q_result' = embed_text(resp)
                 /\ q_calls' = Append(q_calls, "embed_ret")
                 /\ UNCHANGED << q_filter, q_top_k, q_embedding >>
            ELSE /\ q_pc' = "querying"
                 /\ q_embedding' = embed_text(resp).value
                 /\ q_top_k' = Get(q_event, "top_k", PyNum(DEFAULT_TOP_K))
                 /\ q_filter' = build_filter(Get(q_event, "user_id", PyNone),
                                             Get(q_event, "paper_ids", PyNone))
                 /\ q_calls' = q_calls \o << "embed_ret", "query_call" >>
                 /\ UNCHANGED q_result
    /\ UNCHANGED << q_event, q_arn, q_hits, q_chunks >>
    /\ UNCHANGED << cvars, fvars, gvars, ivars >>

\* s3v.query_vectors returns or raises; hits become top_k_chunks; then
\* either the chunks-only response or the call lambda_client.invoke
QueryReturn ==
    /\ q_pc = "querying"
    /\ \E resp \in QueryResponses :
         /\ q_last_resp' = [of |-> "query", resp |-> resp]
         /\ IF resp.kind = "raise"
            THEN /\ q_pc' = "failed"
                 /\ q_result' = resp
                 /\ q_calls' = Append(q_calls, "query_ret")
                 /\ UNCHANGED << q_hits, q_chunks >>
            ELSE LET hits == Get(resp.value, "vectors", PyList(<< >>)).l
                     top_k_chunks == TopKChunks(hits)
                 IN  /\ q_hits' = hits
                     /\ q_chunks' = top_k_chunks
                     /\ IF SkipGeneration(q_arn, Truthy(Get(q_event, "invoke_gemini", PyBool(TRUE))))
                        THEN /\ q_pc' = "done"
                             /\ q_result' = Return([t |-> "obj",
                                                    question |-> q_event.question,
                                                    top_k_chunks |-> PyList(top_k_chunks),
                                                    answer |-> PyNone])
                             /\ q_calls' = Append(q_calls, "query_ret")
                        ELSE /\ q_pc' = "generating"
                             /\ q_calls' = q_calls \o << "query_ret" >>
                                                   \o GeminiInvocations(top_k_chunks)
                             /\ UNCHANGED q_result
    /\ UNCHANGED << q_event, q_arn, q_embedding, q_top_k, q_filter >>
    /\ UNCHANGED << cvars, fvars, gvars, ivars >>

\* lambda_client.invoke returns or raises; the payload is read and its
\* "answer" becomes the response's answer
GenerateReturn ==
    /\ q_pc = "generating"
    /\ \E resp \in InvokeResponses :
         /\ q_last_resp' = [of |-> "generate", resp |-> resp]
         /\ q_calls' = Append(q_calls, "generate_ret")
         /\ IF resp.kind = "raise"
            THEN /\ q_pc' = "failed"
                 /\ q_result' = Raise(resp.exc)
            ELSE LET gemini_payload == [t |-> "obj", question |-> q_event.question,
                                       chunks |-> PyList(q_chunks)]
                     gem_result == InvokePayload(
                         gemini_lambda_handler(gemini_payload, resp.run.secret, resp.run.http))
                     answer == Get(gem_result, "answer", PyNone)
                 IN  /\ q_pc' = "done"
                     /\ q_result' = Return([t |-> "obj",
                                            question |-> q_event.question,
                                            top_k_chunks |-> PyList(q_chunks),
                                            answer |-> answer])
    /\ UNCHANGED << q_event, q_arn, q_embedding, q_hits, q_chunks, q_top_k, q_filter >>
    /\ UNCHANGED << cvars, fvars, gvars, ivars >>

\* ---- claims about the query entrypoint ----
\* the run of GeminiLambda that the last invoke started
InvokedGeminiRun ==
    gemini_lambda_handler([t |-> "obj", question |-> q_event.question,
                           chunks |-> PyList(q_chunks)],
                          q_last_resp.resp.run.secret, q_last_resp.resp.run.http)

TransportExceptions == {"HTTPError", "URLError", "ClientError"}

\* the generation lambda ran and call_gemini raised a transport-level error
GenerationTransportFailure ==
    /\ q_last_resp.of = "generate"
    /\ q_last_resp.resp.kind = "ran"
    /\ InvokedGeminiRun.kind = "raise"
    /\ InvokedGeminiRun.exc \in TransportExceptions

\* C1: a transport-level failure of the generation capability fails the
\* query request; it is never answered with a normal response.
TransportFailurePropagates ==
    GenerationTransportFailure => (q_pc = "failed" /\ q_result.kind = "raise")

GenerationOff ==
    \/ IsNone(q_arn)
    \/ q_arn = PyStr("")
    \/ (Has(q_event, "invoke_gemini") /\ q_event.invoke_gemini = PyBool(FALSE))

\* C6: with generation unavailable or disabled the response's answer is
\* null, GeminiLambda is not invoked, and the ranked chunks are returned.
SkippedGenerationAnswerNull ==
    (q_pc = "done" /\ GenerationOff) =>
        /\ q_result.kind = "return"
        /\ IsNone(q_result.value.answer)
        /\ \A i \in 1..Len(q_calls) : q_calls[i] \notin {"generate_call", "generate_ret"}
        /\ q_result.value.top_k_chunks = PyList(q_chunks)
        /\ Len(q_chunks) = Len(q_hits)

\* generation disabled by the request although the ARN is set; chunks returned
SkippedGenerationWitness ==
    /\ q_pc = "done"
    /\ Truthy(q_arn)
    /\ Has(q_event, "invoke_gemini") /\ q_event.invoke_gemini = PyBool(FALSE)
    /\ Len(q_chunks) = 2
    /\ IsNone(q_result.value.answer)

\* the metadata dict of a hit ({} when missing or null)
HitMetadata(v) ==
    IF Has(v, "metadata") /\ v.metadata.t = "obj" THEN v.metadata ELSE EmptyObj

\* C7: one ranked chunk per hit, in the store's order: the i-th hit gives
\* rank i and similarity 1 - distance (not clamped), text, owner, document
\* and chunk_index are the hit's metadata; the response carries them.
RankedChunksFollowHits ==
    /\ Len(q_chunks) = Len(q_hits)
    /\ \A i \in 1..Len(q_hits) :
          /\ q_chunks[i].rank = PyNum(i)
          /\ Has(q_hits[i], "distance")
                => q_chunks[i].similarity = PyNum(One - q_hits[i].distance.n)
          /\ Has(HitMetadata(q_hits[i]), "source_text")
                => q_chunks[i].text = HitMetadata(q_hits[i]).source_text
          /\ Has(HitMetadata(q_hits[i]), "user_id")
                => q_chunks[i].user_id = HitMetadata(q_hits[i]).user_id
          /\ Has(HitMetadata(q_hits[i]), "paper_id")
                => q_chunks[i].paper_id = HitMetadata(q_hits[i]).paper_id
          /\ Has(HitMetadata(q_hits[i]), "chunk_index")
                => q_chunks[i].chunk_index = HitMetadata(q_hits[i]).chunk_index
    /\ q_pc = "done" => q_result.value.top_k_chunks = PyList(q_chunks)

\* two hits, the farther one first and farther than 1: it keeps rank 1 and
\* gets a negative similarity
RankedChunksWitness ==
    /\ q_pc = "done"
    /\ Len(q_hits) = 2
    /\ Has(q_hits[1], "distance") /\ Has(q_hits[2], "distance")
    /\ q_hits[1].distance.n > One /\ q_hits[2].distance.n < One
    /\ q_hits[1].metadata = FullMetadata
    /\ q_result.value.top_k_chunks.l[1].similarity.n < 0
    /\ q_result.value.top_k_chunks.l[1].rank = PyNum(1)

FullCalls ==
    << "embed_call", "embed_ret", "query_call", "query_ret", "generate_call", "generate_ret" >>

\* C8: the external calls of a request are one embedding, then one store
\* query, then at most one generation, each started after the one before
\* returned, none repeated.
CallsInSequence ==
    /\ Len(q_calls) <= Len(FullCalls)
    /\ \A i \in 1..Len(q_calls) : q_calls[i] = FullCalls[i]
    /\ q_pc = "done" => Len(q_calls) \in {4, 6}

\* a request answered after all three calls, with several chunks
CallsInSequenceWitness ==
    /\ q_pc = "done"
    /\ q_calls = FullCalls
    /\ Len(q_chunks) = 2

\* the embedding call raised, or its payload has none of the three aliases
EmbedFailed(resp) ==
    \/ resp.kind = "raise"
    \/ /\ resp.kind = "return"
       /\ ~Has(resp.value, "embedding")
       /\ ~Has(resp.value, "embeddings")
       /\ ~Has(resp.value, "vector")

\* C9: a failed embedding fails the request with that error: no second
\* embedding call, no store query, no generation, no response.
EmbedFailureStopsRequest ==
    (q_last_resp.of = "embed" /\ EmbedFailed(q_last_resp.resp)) =>
        /\ q_pc = "failed"
        /\ q_result.kind = "raise"
        /\ q_last_resp.resp.kind = "raise" => q_result = q_last_resp.resp
        /\ q_calls = << "embed_call", "embed_ret" >>
        /\ q_hits = << >> /\ q_chunks = << >>

\* the payload came back without any vector field
EmbedFailureWitness ==
    /\ q_pc = "failed"
    /\ q_last_resp.of = "embed"
    /\ q_last_resp.resp.kind = "return"
    /\ EmbedFailed(q_last_resp.resp)
    /\ q_result = Raise("RuntimeError")

\* ------------------------------------------------------------------------
\* ChunkAndEmbedLambda (2_chunk_embed)
\* ------------------------------------------------------------------------
Vec2 == PyList(<< 3, 4 >>)

\* embed_text of 2_chunk_embed, given what bedrock.invoke_model answered
index_embed_text(resp) ==
    IF resp.kind = "raise" THEN resp
    ELSE LET embedding == PyOr(PyOr(Get(resp.value, "embedding", PyNone),
                                    Get(resp.value, "embeddings", PyNone)),
                               Get(resp.value, "vector", PyNone))
         IN  IF IsNone(embedding) THEN Raise("RuntimeError") ELSE Return(embedding)

\* one entry of vector_items; idx is the 0-based position of the chunk.
\* The key ends in a fresh uuid4, which is left out here.
VectorItemMutant(user_id, paper_id, idx, chunk, embedding) ==
    [key |-> << user_id, paper_id, idx + 1 >>,
     data |-> embedding,
     metadata |-> [source_text |-> chunk, user_id |-> user_id, paper_id |-> paper_id,
                   chunk_index |-> idx + 1]]

VectorItem(user_id, paper_id, idx, chunk, embedding) ==
    [key |-> << user_id, paper_id, idx >>,
     data |-> embedding,
     metadata |-> [source_text |-> chunk, user_id |-> user_id, paper_id |-> paper_id,
                   chunk_index |-> idx]]

\* "for idx, (chunk, embedding) in enumerate(zip(chunks, embeddings))"
Min(a, b) == IF a <= b THEN a ELSE b
VectorItems(user_id, paper_id, chunks, embeddings) ==
    [k \in 1..Min(Len(chunks), Len(embeddings)) |->
        VectorItem(user_id, paper_id, k - 1, chunks[k], embeddings[k])]

\* ---- inputs ----
IndexEvents ==
    {[t |-> "obj", user_id |-> u, paper_id |-> PyStr("d1"),
      text_s3_bucket |-> PyStr("texts"), text_s3_key |-> k] :
        u \in {Absent, PyStr("u1")}, k \in {Absent, PyStr("d1.txt")}}

IndexEnvs ==
    {[VECTOR_BUCKET |-> b, VECTOR_INDEX |-> x] :
        b \in {PyNone, PyStr("paper-vectors")}, x \in {PyNone, PyStr(""), PyStr("paper-chunks")}}

IndexTexts == SeqsUpTo({"a", " "}, IndexMaxTextLen)

\* what s3.get_object answers
GetObjectResponses == {Raise("ClientError")} \cup {Return(x) : x \in IndexTexts}

\* what bedrock.invoke_model answers for a chunk
IndexEmbedResponses ==
    {Raise("ClientError"),
     Return([t |-> "obj", embedding |-> Absent, vector |-> Absent]),
     Return([t |-> "obj", embedding |-> Vec, vector |-> Absent]),
     Return([t |-> "obj", embedding |-> PyNone, vector |-> Vec2])}

\* what s3v.put_vectors answers
PutResponses == {Raise("ClientError"), Return(EmptyObj)}

IndexVarsInit ==
    /\ i_event \in IndexEvents
    /\ i_env \in IndexEnvs
    /\ i_pc = "start"
    /\ i_text = << >>
    /\ i_chunks = << >>
    /\ i_embeddings = << >>
    /\ i_puts = << >>
    /\ i_result = Return(PyNone)

IndexVarsIdle ==
    /\ i_event = EmptyObj
    /\ i_env = [VECTOR_BUCKET |-> PyNone, VECTOR_INDEX |-> PyNone]
    /\ i_pc = "idle"
    /\ i_text = << >>
    /\ i_chunks = << >>
    /\ i_embeddings = << >>
    /\ i_puts = << >>
    /\ i_result = Return(PyNone)

\* step 1: the four keys of the event, up to the call s3.get_object
IndexStart ==
    /\ i_pc = "start"
    /\ IF \E k \in {"user_id", "paper_id", "text_s3_bucket", "text_s3_key"} : ~Has(i_event, k)
       THEN /\ i_pc' = "failed"
            /\ i_result' = Raise("KeyError")
       ELSE /\ i_pc' = "reading"
            /\ UNCHANGED i_result
    /\ UNCHANGED << i_event, i_env, i_text, i_chunks, i_embeddings, i_puts >>
    /\ UNCHANGED << cvars, fvars, gvars, qvars >>

\* steps 2-3: get_object returns or raises; the text is chunked; no chunks
\* is a no-op response; missing VECTOR_BUCKET / VECTOR_INDEX raises;
\* otherwise the first chunk goes to bedrock.invoke_model
IndexReadReturn ==
    /\ i_pc = "reading"
    /\ \E resp \in GetObjectResponses :
         IF resp.kind = "raise"
         THEN /\ i_pc' = "failed"
              /\ i_result' = resp
              /\ UNCHANGED << i_text, i_chunks >>
         ELSE LET chunks == chunk_text(resp.value, IndexMaxChars)
              IN  /\ i_text' = resp.value
                  /\ i_chunks' = chunks
                  /\ IF Len(chunks) = 0
                     THEN /\ i_pc' = "done"
                          /\ i_result' = Return([statusCode |-> 200,
                                                 message |-> "No text to embed",
                                                 text_length |-> Len(resp.value),
                                                 num_chunks |-> 0,
                                                 embedding_dim |-> Absent,
                                                 vectors_written |-> 0])
                     ELSE IF ~Truthy(i_env.VECTOR_BUCKET) \/ ~Truthy(i_env.VECTOR_INDEX)
                     THEN /\ i_pc' = "failed"
                          /\ i_result' = Raise("RuntimeError")
                     ELSE /\ i_pc' = "embedding"
                          /\ UNCHANGED i_result
    /\ UNCHANGED << i_event, i_env, i_embeddings, i_puts >>
    /\ UNCHANGED << cvars, fvars, gvars, qvars >>

\* step 4, one pass of the loop: invoke_model returns or raises for the
\* next chunk; after the last chunk, step 5 builds vector_items and step 6
\* calls put_vectors
IndexEmbedReturn ==
    /\ i_pc = "embedding"
    /\ \E resp \in IndexEmbedResponses :
         IF index_embed_text(resp).kind = "raise"
         THEN /\ i_pc' = "failed"
              /\ i_result' = index_embed_text(resp)
              /\ UNCHANGED << i_embeddings, i_puts >>
         ELSE LET embeddings == Append(i_embeddings, index_embed_text(resp).value)
              IN  /\ i_embeddings' = embeddings
                  /\ UNCHANGED i_result
                  /\ IF Len(embeddings) < Len(i_chunks)
                     THEN /\ i_pc' = "embedding"
                          /\ UNCHANGED i_puts
                     ELSE /\ i_pc' = "writing"
                          /\ i_puts' = Append(i_puts,
                                 VectorItems(i_event.user_id, i_event.paper_id,
                                             i_chunks, embeddings))
    /\ UNCHANGED << i_event, i_env, i_text, i_chunks >>
    /\ UNCHANGED << cvars, fvars, gvars, qvars >>

\* steps 6-7: put_vectors returns or raises; the summary is returned
IndexPutReturn ==
    /\ i_pc = "writing"
    /\ \E resp \in PutResponses :
         IF resp.kind = "raise"
         THEN /\ i_pc' = "failed"
              /\ i_result' = resp
         ELSE /\ i_pc' = "done"
              /\ i_result' = Return([statusCode |-> 200,
                                     message |-> "Text loaded, chunked, embedded, and stored successfully",
                                     text_length |-> Len(i_text),
                                     num_chunks |-> Len(i_chunks),
                                     embedding_dim |-> IF i_embeddings # << >>
                                                       THEN PyNum(Len(i_embeddings[1].l))
                                                       ELSE PyNum(0),
                                     vectors_written |-> Len(i_puts[Len(i_puts)])])
    /\ UNCHANGED << i_event, i_env, i_text, i_chunks, i_embeddings, i_puts >>
    /\ UNCHANGED << cvars, fvars, gvars, qvars >>

\* C10: at most one write per request, made only once every chunk is
\* embedded; no chunks, missing index identifiers or a failed embedding
\* mean no write; the write carries one record per chunk, in order, with
\* chunk_index the 0-based position, and vectors_written counts the chunks.
IndexWriteOnceAfterEmbedding ==
    /\ Len(i_puts) <= 1
    /\ i_puts # << >> =>
          /\ i_chunks # << >>
          /\ i_env.VECTOR_BUCKET \notin {PyNone, PyStr("")}
          /\ i_env.VECTOR_INDEX \notin {PyNone, PyStr("")}
          /\ Len(i_embeddings) = Len(i_chunks)
          /\ Len(i_puts[1]) = Len(i_chunks)
          /\ \A k \in 1..Len(i_chunks) :
                /\ i_puts[1][k].metadata.chunk_index = k - 1
                /\ i_puts[1][k].metadata.source_text = i_chunks[k]
                /\ i_puts[1][k].data = i_embeddings[k]
    /\ (i_pc = "done" /\ i_chunks # << >>) =>
          /\ Len(i_puts) = 1
          /\ i_result.value.vectors_written = Len(i_chunks)
    /\ (i_pc = "done" /\ i_chunks = << >>) =>
          /\ i_puts = << >>
          /\ i_result.value.vectors_written = 0
    /\ (i_pc = "failed" /\ Len(i_embeddings) < Len(i_chunks)) => i_puts = << >>

\* a text of three chunks, embedded under different aliases, written once
IndexWriteWitness ==
    /\ i_pc = "done"
    /\ Len(i_chunks) = 3
    /\ Len(i_puts) = 1
    /\ i_embeddings[1] # i_embeddings[2]
    /\ i_result.value.vectors_written = 3

\* ------------------------------------------------------------------------
\* Specifications
\* ------------------------------------------------------------------------
ChunkInit == ChunkVarsInit /\ FilterVarsIdle /\ GeminiVarsIdle /\ QueryVarsIdle /\ IndexVarsIdle
ChunkNext == ChunkCall
SpecChunk == ChunkInit /\ [][ChunkNext]_vars

FilterInit == FilterVarsInit /\ ChunkVarsIdle /\ GeminiVarsIdle /\ QueryVarsIdle /\ IndexVarsIdle
FilterNext == FilterCall
SpecFilter == FilterInit /\ [][FilterNext]_vars

GeminiInit == GeminiVarsInit /\ ChunkVarsIdle /\ FilterVarsIdle /\ QueryVarsIdle /\ IndexVarsIdle
GeminiNext == GeminiCall
SpecGemini == GeminiInit /\ [][GeminiNext]_vars

QueryInit == QueryVarsInit /\ ChunkVarsIdle /\ FilterVarsIdle /\ GeminiVarsIdle /\ IndexVarsIdle
QueryNext == QueryStart \/ EmbedReturn \/ QueryReturn \/ GenerateReturn
SpecQuery == QueryInit /\ [][QueryNext]_vars

IndexInit ==
    IndexVarsInit /\ ChunkVarsIdle /\ FilterVarsIdle /\ GeminiVarsIdle /\ QueryVarsIdle
IndexNext == IndexStart \/ IndexReadReturn \/ IndexEmbedReturn \/ IndexPutReturn
SpecIndex == IndexInit /\ [][IndexNext]_vars

=============================================================================
